---- MODULE Spec2Model ----
(***************************************************************************)
(* Model of delacroix2012chap1/mle.py: the model evaluator                 *)
(* compute_model_values, the objective neg_log_likelihood, the scorer      *)
(* evaluate_model and the top-level script that drives scipy's minimize.   *)
(*                                                                         *)
(* Numbers.  The script computes in IEEE-754 doubles through numpy.  A     *)
(* number of the model is either one of the special values +inf, -inf,     *)
(* NaN, or the exact finite value                                          *)
(*     (n + lp*ln(2*pi) + l2*ln 2 + l3*ln 3 + l5*ln 5) / d  *  10^x10      *)
(* with integer n, lp, l2, l3, l5, d > 0, kept in lowest terms; a zero     *)
(* carries its IEEE sign in nz.  The logarithms stay symbolic, so          *)
(* np.exp and np.log are computed exactly on the values used here.         *)
(* Division follows numpy: a zero divisor gives inf or NaN, it does not    *)
(* raise.  Rounding of doubles is not modelled.                            *)
(***************************************************************************)
EXTENDS Integers, Sequences, FiniteSets, TLC

\* ------------------------------------------------------------- numbers

Abs(i) == IF i < 0 THEN -i ELSE i

RECURSIVE Gcd(_, _)
Gcd(a, b) == IF b = 0 THEN Abs(a) ELSE Gcd(Abs(b), Abs(a) % Abs(b))

Fin(n, lp, l2, l3, l5, d, nz) ==
    [t |-> "fin", n |-> n, lp |-> lp, l2 |-> l2, l3 |-> l3, l5 |-> l5,
     d |-> d, nz |-> nz, x10 |-> 0]

PInf == [t |-> "pinf", n |-> 0, lp |-> 0, l2 |-> 0, l3 |-> 0, l5 |-> 0,
         d |-> 1, nz |-> FALSE, x10 |-> 0]
NInf == [t |-> "ninf", n |-> 0, lp |-> 0, l2 |-> 0, l3 |-> 0, l5 |-> 0,
         d |-> 1, nz |-> FALSE, x10 |-> 0]
NaN  == [t |-> "nan", n |-> 0, lp |-> 0, l2 |-> 0, l3 |-> 0, l5 |-> 0,
         d |-> 1, nz |-> FALSE, x10 |-> 0]

\* The finite value (n + lp*ln(2pi) + l2*ln2 + l3*ln3 + l5*ln5)/d in lowest
\* terms; zs is the sign a zero result takes.
Norm(n, lp, l2, l3, l5, d, zs) ==
    LET g == Gcd(Gcd(Gcd(Gcd(Gcd(n, lp), l2), l3), l5), d)
        s == IF d < 0 THEN -g ELSE g
    IN  IF n = 0 /\ lp = 0 /\ l2 = 0 /\ l3 = 0 /\ l5 = 0
        THEN Fin(0, 0, 0, 0, 0, 1, zs)
        ELSE Fin(n \div s, lp \div s, l2 \div s, l3 \div s, l5 \div s, d \div s, FALSE)

\* The rational n/d, d # 0.
R(n, d) == Norm(n, 0, 0, 0, 0, d, FALSE)
Zero == R(0, 1)
One  == R(1, 1)

IsFinite(a) == a.t = "fin"
IsZero(a)   == a.t = "fin" /\ a.n = 0 /\ a.lp = 0 /\ a.l2 = 0 /\ a.l3 = 0 /\ a.l5 = 0
IsRational(a) == a.t = "fin" /\ a.lp = 0 /\ a.l2 = 0 /\ a.l3 = 0 /\ a.l5 = 0

\* ln(2pi), ln 2, ln 3, ln 5 in thousandths: enough to tell the sign and the
\* size of the small combinations that occur.
Milli(a) == a.n * 1000 + a.lp * 1838 + a.l2 * 693 + a.l3 * 1099 + a.l5 * 1609

\* The IEEE sign bit.
SignBit(a) ==
    CASE a.t = "pinf" -> FALSE
      [] a.t = "ninf" -> TRUE
      [] a.t = "nan"  -> FALSE
      [] OTHER -> IF IsZero(a) THEN a.nz
                  ELSE IF IsRational(a) THEN a.n < 0 ELSE Milli(a) < 0

Signed(neg, pos) == IF neg THEN
                        (IF pos.t = "pinf" THEN NInf ELSE Fin(0, 0, 0, 0, 0, 1, TRUE))
                    ELSE pos

FNeg(a) ==
    CASE a.t = "pinf" -> NInf
      [] a.t = "ninf" -> PInf
      [] a.t = "nan"  -> NaN
      [] OTHER -> IF IsZero(a) THEN Fin(0, 0, 0, 0, 0, 1, ~a.nz)
                  ELSE Fin(-a.n, -a.lp, -a.l2, -a.l3, -a.l5, a.d, FALSE)

\* a + b for finite a, b over the least common denominator: ma and mb are what
\* the numerators of a and b are multiplied by.  (+0) + (-0) = +0, x + (-x) = +0.
SumOver(a, b, ma, mb) ==
    Norm(a.n * ma + b.n * mb, a.lp * ma + b.lp * mb, a.l2 * ma + b.l2 * mb,
         a.l3 * ma + b.l3 * mb, a.l5 * ma + b.l5 * mb, a.d * ma,
         IsZero(a) /\ IsZero(b) /\ a.nz /\ b.nz)

FAdd(a, b) ==
    IF a.t = "nan" \/ b.t = "nan" THEN NaN
    ELSE IF a.t # "fin" /\ b.t # "fin" THEN (IF a.t = b.t THEN a ELSE NaN)
    ELSE IF a.t # "fin" THEN a
    ELSE IF b.t # "fin" THEN b
    ELSE SumOver(a, b, b.d \div Gcd(a.d, b.d), a.d \div Gcd(a.d, b.d))

FSub(a, b) == FAdd(a, FNeg(b))

\* One factor of a finite product is rational in every product the script
\* forms, and so is every finite divisor (the logarithms are only ever added
\* and scaled); no other product or quotient has a value here.
FMul(a, b) ==
    LET neg == (SignBit(a) # SignBit(b))
    IN  IF a.t = "nan" \/ b.t = "nan" THEN NaN
        ELSE IF a.t # "fin" \/ b.t # "fin"
             THEN (IF IsZero(a) \/ IsZero(b) THEN NaN ELSE Signed(neg, PInf))
        ELSE CASE IsRational(a) \/ IsRational(b) ->
                  Norm(a.n * b.n, a.lp * b.n + b.lp * a.n, a.l2 * b.n + b.l2 * a.n,
                       a.l3 * b.n + b.l3 * a.n, a.l5 * b.n + b.l5 * a.n, a.d * b.d,
                       neg)

\* numpy's true division: x/0 is +-inf, 0/0 and inf/inf are NaN; no exception.
FDiv(a, b) ==
    LET neg == (SignBit(a) # SignBit(b))
    IN  IF a.t = "nan" \/ b.t = "nan" THEN NaN
        ELSE IF a.t # "fin" /\ b.t # "fin" THEN NaN
        ELSE IF a.t # "fin" THEN Signed(neg, PInf)
        ELSE IF b.t # "fin" THEN Signed(neg, Zero)
        ELSE IF IsZero(b) THEN (IF IsZero(a) THEN NaN ELSE Signed(neg, PInf))
        ELSE CASE IsRational(b) ->
                  Norm(a.n * b.d, a.lp * b.d, a.l2 * b.d, a.l3 * b.d, a.l5 * b.d,
                       a.d * b.n, neg)

\* IEEE comparisons of rationals and infinities: any comparison with NaN is false.
FGt(a, b) ==
    IF a.t = "nan" \/ b.t = "nan" THEN FALSE
    ELSE IF a.t = "pinf" THEN b.t # "pinf"
    ELSE IF a.t = "ninf" THEN FALSE
    ELSE IF b.t = "pinf" THEN FALSE
    ELSE IF b.t = "ninf" THEN TRUE
    ELSE a.n * b.d > b.n * a.d

FSq(a) == FMul(a, a)

\* How often the prime p divides i > 0.
RECURSIVE Mult(_, _)
Mult(i, p) == IF i > 0 /\ i % p = 0 THEN 1 + Mult(i \div p, p) ELSE 0

RECURSIVE Pow(_, _)
Pow(b, e) == IF e <= 0 THEN 1 ELSE b * Pow(b, e - 1)

\* ln(i) for an integer i > 0 whose prime factors are among 2, 3, 5 (no other
\* integer has a value here).
LnInt(i) ==
    LET a == Mult(i, 2)
        b == Mult(i, 3)
        c == Mult(i, 5)
    IN  CASE i = Pow(2, a) * Pow(3, b) * Pow(5, c) -> Norm(0, 0, a, b, c, 1, FALSE)

\* np.log(x) for x = 0, +inf, NaN or a positive rational n/d.
FLog(a) ==
    CASE a.t = "nan"  -> NaN
      [] a.t = "pinf" -> PInf
      [] a.t = "ninf" -> NaN
      [] OTHER -> IF IsZero(a) THEN NInf
                  ELSE FSub(LnInt(a.n), LnInt(a.d))

\* np.log(2 * np.pi * x): ln(2pi) + ln(x) on the values FLog covers.
Log2Pi(a) == FAdd(Fin(0, 1, 0, 0, 0, 1, FALSE), FLog(a))

\* np.exp(x) for x an integer combination of ln 2, ln 3, ln 5: the product of
\* the powers; +inf above ln(DBL_MAX) = 709.782 and 0 below the logarithm of
\* the smallest subnormal, -745.133 (a warning, no exception).
FExp(a) ==
    CASE a.t = "nan"  -> NaN
      [] a.t = "pinf" -> PInf
      [] a.t = "ninf" -> Zero
      [] OTHER ->
         IF Milli(a) > 709782 THEN PInf
         ELSE IF Milli(a) < -745133 THEN Zero
         ELSE LET P(b, e) == IF e > 0 THEN Pow(b, e) ELSE 1
                  Q(b, e) == IF e < 0 THEN Pow(b, -e) ELSE 1
              IN  R(P(2, a.l2) * P(3, a.l3) * P(5, a.l5),
                    Q(2, a.l2) * Q(3, a.l3) * Q(5, a.l5))

\* np.sum of an array, from 0.0.
RECURSIVE FSum(_)
FSum(s) == IF s = <<>> THEN Zero ELSE FAdd(FSum(SubSeq(s, 1, Len(s) - 1)), s[Len(s)])

\* ---------------------------------------------------- arrays (numpy)

\* Elementwise operations on arrays of one length, and scalar broadcasting.
ArrSub(a, b)   == [i \in 1..Len(a) |-> FSub(a[i], b[i])]
ArrSq(a)       == [i \in 1..Len(a) |-> FSq(a[i])]
ArrDivS(a, s)  == [i \in 1..Len(a) |-> FDiv(a[i], s)]
ArrAddS(s, a)  == [i \in 1..Len(a) |-> FAdd(s, a[i])]
AllFinite(a)   == \A i \in 1..Len(a) : IsFinite(a[i])

\* ------------------------------------------------- compute_model_values

\* w_thresh = theta / (eta * phi)
WThresh(eta, phi, theta) == FDiv(theta, FMul(eta, phi))

\* w = y / (1 - phi * n), one element
WOf(y, n, phi) == FDiv(y, FSub(One, FMul(phi, n)))

\* Mutant of ActiveE: phi dropped from the product.
ActiveE_NoPhi(w, eta, phi, theta) ==
    FDiv(FSub(FMul(eta, w), theta), FSub(One, eta))

\* (eta * phi * w - theta) / (1 - eta): the first branch of np.where for e
ActiveE(w, eta, phi, theta) ==
    FDiv(FSub(FMul(FMul(eta, phi), w), theta), FSub(One, eta))

\* Mutant of ActiveN: phi * w + theta in the denominator.
ActiveN_PlusTheta(w, eta, phi, theta, gamma) ==
    FDiv(FMul(FMul(FSub(One, eta), gamma), w),
         FMul(FAdd(One, gamma), FAdd(FMul(phi, w), theta)))

\* (1 - eta) * gamma * w / ((1 + gamma) * (phi * w - theta)): the first branch
\* of np.where for n_model
ActiveN(w, eta, phi, theta, gamma) ==
    FDiv(FMul(FMul(FSub(One, eta), gamma), w),
         FMul(FAdd(One, gamma), FSub(FMul(phi, w), theta)))

\* gamma / (phi * (1 + gamma)): the second branch of np.where for n_model
BoundaryN(phi, gamma) == FDiv(gamma, FMul(phi, FAdd(One, gamma)))

\* Mutant of Active: the comparison reversed.
Active_Reversed(w, w_thresh) == FGt(w_thresh, w)

\* The condition array of both np.where calls, one element.
Active(w, w_thresh) == FGt(w, w_thresh)

\* np.where(cond, a, b), one element
NpWhere(cond, a, b) == IF cond THEN a ELSE b

\* Mutant of Element: e is not clipped at zero below the threshold.
Element_Unclipped(w, w_thresh, e_active, n_active, n_boundary, theta) ==
    [w |-> w, e_active |-> e_active, n_active |-> n_active,
     e_plus_theta |-> FAdd(e_active, theta),
     n_model |-> IF FGt(w, w_thresh) THEN n_active ELSE n_boundary]

\* One element of the arrays of compute_model_values, from the element's w and
\* the two branches np.where selects from (both are evaluated for every
\* element): e = np.where(w > w_thresh, e_active, 0.0), e_plus_theta = e + theta,
\* n_model = np.where(w > w_thresh, n_active, n_boundary).
Element(w, w_thresh, e_active, n_active, n_boundary, theta) ==
    [w |-> w, e_active |-> e_active, n_active |-> n_active,
     e_plus_theta |-> FAdd(NpWhere(Active(w, w_thresh), e_active, Zero), theta),
     n_model |-> NpWhere(Active(w, w_thresh), n_active, n_boundary)]

ElementAt(w, w_thresh, eta, phi, theta, gamma) ==
    Element(w, w_thresh, ActiveE(w, eta, phi, theta),
            ActiveN(w, eta, phi, theta, gamma), BoundaryN(phi, gamma), theta)

\* The frame of compute_model_values as arrays: what it returns (w,
\* e_plus_theta, n_model) and its temporaries.
Frame(el, w_thresh) ==
    [w |-> [i \in DOMAIN el |-> el[i].w],
     w_thresh |-> w_thresh,
     e_active |-> [i \in DOMAIN el |-> el[i].e_active],
     n_active |-> [i \in DOMAIN el |-> el[i].n_active],
     e_plus_theta |-> [i \in DOMAIN el |-> el[i].e_plus_theta],
     n_model |-> [i \in DOMAIN el |-> el[i].n_model]]

FrameAt(y, n, w_thresh, eta, phi, theta, gamma) ==
    Frame([i \in 1..Len(y) |->
              ElementAt(WOf(y[i], n[i], phi), w_thresh, eta, phi, theta, gamma)],
          w_thresh)

compute_model_values(y, n, eta, phi, theta, gamma) ==
    FrameAt(y, n, WThresh(eta, phi, theta), eta, phi, theta, gamma)

\* --------------------------------------------------- neg_log_likelihood

\* 1e10, the value returned for infeasible parameters.  It is returned as it
\* is and never enters a computation.
PENALTY == [t |-> "fin", n |-> 1, lp |-> 0, l2 |-> 0, l3 |-> 0, l5 |-> 0,
            d |-> 1, nz |-> FALSE, x10 |-> 10]

\* Mutant of Feasible: the bounds closed, 0 <= eta <= 1 and so on.
Feasible_Closed(eta, phi, theta, gamma) ==
    /\ ~FGt(Zero, eta) /\ ~FGt(eta, One)
    /\ ~FGt(Zero, phi) /\ ~FGt(phi, One)
    /\ ~FGt(Zero, theta)
    /\ ~FGt(Zero, gamma)

\* 0 < eta < 1 and 0 < phi < 1 and theta > 0 and gamma > 0
Feasible(eta, phi, theta, gamma) ==
    /\ FGt(eta, Zero) /\ FGt(One, eta)
    /\ FGt(phi, Zero) /\ FGt(One, phi)
    /\ FGt(theta, Zero)
    /\ FGt(gamma, Zero)

\* Whether the call of compute_model_values inside the try block raises.  The
\* data are numpy float arrays and the parameters numpy scalars, whose
\* division by zero yields inf or NaN with a RuntimeWarning: nothing raises.
ComputeRaises(y, n, eta, phi, theta, gamma) == FALSE

\* np.sum(np.log(2 * np.pi * sigma ** 2) + (res ** 2) / sigma ** 2), with
\* sigma2 = sigma ** 2
GaussSum2(res, sigma2) == FSum(ArrAddS(Log2Pi(sigma2), ArrDivS(ArrSq(res), sigma2)))
GaussSum(res, sigma)   == GaussSum2(res, FSq(sigma))

\* Mutant of NegLogLik: sigma_n used for both residuals.
NegLogLik_OneSigma(n, ept, m, sigma_n, sigma_e) ==
    FNeg(FSub(FMul(R(-1, 2), GaussSum(ArrSub(n, m.n_model), sigma_n)),
              FMul(R(1, 2), GaussSum(ArrSub(ept, m.e_plus_theta), sigma_n))))

\* Lines 59-67, with m what compute_model_values returned: the residuals, the
\* log-likelihood ll and the returned -ll.
NegLogLik(n, ept, m, sigma_n, sigma_e) ==
    FNeg(FSub(FMul(R(-1, 2), GaussSum(ArrSub(n, m.n_model), sigma_n)),
              FMul(R(1, 2), GaussSum(ArrSub(ept, m.e_plus_theta), sigma_e))))

neg_log_likelihood(params, y, n, ept) ==
    IF ~Feasible(params[1], params[2], params[3], params[4]) THEN PENALTY
    ELSE IF ComputeRaises(y, n, params[1], params[2], params[3], params[4])
         THEN PENALTY
    ELSE NegLogLik(n, ept,
                   compute_model_values(y, n, params[1], params[2], params[3],
                                        params[4]),
                   FExp(params[5]), FExp(params[6]))

\* ------------------------------------------------------- evaluate_model

\* k = 6, the number of parameters
k == 6

\* sklearn's r2_score and mean_squared_error validate their arguments: an
\* empty array, or a NaN or an infinity in either array, raises ValueError.
MetricRaises(true, pred) ==
    Len(true) = 0 \/ ~AllFinite(true) \/ ~AllFinite(pred)

\* Mutant of Scores: bic = k*np.log(n_obs) - ll.
Scores_BicSlip(ll, n_obs, raises) ==
    IF raises
    THEN [raised |-> TRUE, log_likelihood |-> NaN, AIC |-> NaN, BIC |-> NaN]
    ELSE [raised |-> FALSE, log_likelihood |-> ll,
          AIC |-> FSub(FMul(R(2, 1), R(6, 1)), FMul(R(2, 1), ll)),
          BIC |-> FSub(FMul(R(6, 1), FLog(R(n_obs, 1))), ll)]

\* Lines 146-165: aic = 2*k - 2*ll, bic = k*np.log(n_obs) - 2*ll and the
\* returned dictionary, or raised = TRUE when a metric call raises out of the
\* function.  R2 and RMSE are reported only and are not computed here.
Scores(ll, n_obs, raises) ==
    IF raises
    THEN [raised |-> TRUE, log_likelihood |-> NaN, AIC |-> NaN, BIC |-> NaN]
    ELSE [raised |-> FALSE, log_likelihood |-> ll,
          AIC |-> FSub(FMul(R(2, 1), R(k, 1)), FMul(R(2, 1), ll)),
          BIC |-> FSub(FMul(R(k, 1), FLog(R(n_obs, 1))), FMul(R(2, 1), ll))]

\* Lines 138-165, with m what compute_model_values returned.
Scored(n, ept, m, sigma_n, sigma_e) ==
    Scores(FSub(FMul(R(-1, 2), GaussSum(ArrSub(n, m.n_model), sigma_n)),
                FMul(R(1, 2), GaussSum(ArrSub(ept, m.e_plus_theta), sigma_e))),
           Len(n),
           MetricRaises(n, m.n_model) \/ MetricRaises(ept, m.e_plus_theta))

evaluate_model(params, y, n, ept) ==
    Scored(n, ept,
           compute_model_values(y, n, params[1], params[2], params[3], params[4]),
           FExp(params[5]), FExp(params[6]))

\* ------------------------------------------------------------ inputs

\* The largest number of rows of dataset.csv considered.
MaxObs == 2

\* Rows (y, n, e+theta) of the data set.  With phi = 1/2 they give w = 4 and
\* w = 8 (on, above or below the threshold w_thresh = theta/(eta*phi), which
\* is 4, 8 or 16), w = +inf and w = NaN (n = 1/phi), and w = -1
\* (1 - phi*n < 0).
ObsSet ==
    { <<R(2, 1), R(1, 1), R(1, 1)>>,
      <<R(4, 1), R(1, 1), R(3, 1)>>,
      <<R(2, 1), R(2, 1), R(1, 1)>>,
      <<R(0, 1), R(2, 1), R(2, 1)>>,
      <<R(1, 1), R(4, 1), R(1, 1)>> }

RECURSIVE SeqsUpTo(_, _)
SeqsUpTo(S, len) ==
    IF len = 0 THEN {<<>>}
    ELSE LET shorter == SeqsUpTo(S, len - 1)
         IN  shorter \cup {Append(q, x) : q \in {r \in shorter : Len(r) = len - 1}, x \in S}

\* The tables dataset.csv can hold: up to MaxObs rows.
DataSets == SeqsUpTo(ObsSet, MaxObs)

Column(rows, c) == [i \in 1..Len(rows) |-> rows[i][c]]

\* log(sigma) = c * ln 2, so that sigma = 2^c, and c * ln 3, so that sigma = 3^c.
LogSigma(c)  == Norm(0, 0, c, 0, 0, 1, FALSE)
LogSigma3(c) == Norm(0, 0, 0, c, 0, 1, FALSE)

\* Parameter vectors (eta, phi, theta, gamma, log_sigma_n, log_sigma_e), inside
\* the bounds, on each bound and outside; exp(log_sigma_n) is 1/2, overflows
\* to +inf or underflows to 0.
ParamSet ==
    { <<eta, phi, theta, gamma, lsn, lse>> :
        eta \in {R(0, 1), R(1, 4), R(1, 2), R(1, 1)},
        phi \in {R(0, 1), R(1, 2), R(1, 1)},
        theta \in {R(-1, 1), R(0, 1), R(1, 1), R(2, 1)},
        gamma \in {R(0, 1), R(1, 1), R(2, 1)},
        lsn \in {LogSigma(-1), LogSigma3(1000), LogSigma3(-1000)},
        lse \in {LogSigma(1)} }

\* initial_guess = [0.5, 0.03, 60, 0.1, np.log(0.1), np.log(0.1)]
InitialGuess ==
    <<R(1, 2), R(3, 100), R(60, 1), R(1, 10),
      Norm(0, 0, -1, 0, -1, 1, FALSE), Norm(0, 0, -1, 0, -1, 1, FALSE)>>

\* methods = ['Powell', 'Nelder-Mead', 'L-BFGS-B']
methods == <<"Powell", "Nelder-Mead", "L-BFGS-B">>

\* The points an optimizer run may end at: where it started, or a fitted
\* vector.
XSet ==
    { InitialGuess,
      <<R(1, 2), R(1, 2), R(1, 1), R(1, 1), LogSigma(1), LogSigma(0)>> }

\* --------------------------------------------------------------- state

VARIABLES
    pc,                 \* where the script, or the sequence of calls, stands
    err,                \* where an exception left the script ("" = none)
    y_data, n_data, e_plus_theta_data,      \* the columns of the data set
    initial_guess,      \* the module-level list initial_guess
    result,             \* the module-level variable result
    results,            \* the dictionary results, method name -> result
    estimates,          \* estimated_params of the first fit
    evaluations,        \* the dictionary evaluations, label -> scores
    params,             \* the parameter vector of the calls under SpecFn
    objective,          \* what neg_log_likelihood returned
    model_values,       \* the frame of compute_model_values
    scores              \* what evaluate_model returned

vars == <<pc, err, y_data, n_data, e_plus_theta_data, initial_guess, result,
          results, estimates, evaluations, params, objective, model_values, scores>>

dataVars   == <<y_data, n_data, e_plus_theta_data>>
scriptVars == <<err, initial_guess, result, results, estimates, evaluations>>
callVars   == <<params, objective, model_values, scores>>

\* A scipy OptimizeResult (x, fun, success) together with the arguments of the
\* call that produced it (method, x0).
NoResult == [x |-> <<>>, fun |-> Zero, success |-> FALSE, method |-> "", x0 |-> <<>>]
NoScores == [raised |-> FALSE, log_likelihood |-> Zero, AIC |-> Zero, BIC |-> Zero]
NoValues == [w |-> <<>>, w_thresh |-> Zero, e_active |-> <<>>, n_active |-> <<>>,
             e_plus_theta |-> <<>>, n_model |-> <<>>]

\* ------------------------------------------------- the script (Spec)

Init ==
    /\ pc = "load"
    /\ err = ""
    /\ y_data = <<>> /\ n_data = <<>> /\ e_plus_theta_data = <<>>
    /\ initial_guess = <<>>
    /\ result = NoResult
    /\ results = <<>>
    /\ estimates = <<>>
    /\ evaluations = <<>>
    /\ params = <<>>
    /\ objective = Zero
    /\ model_values = NoValues
    /\ scores = NoScores

Raise(where) == pc' = "crashed" /\ err' = where

\* Lines 14-15 and 70-71: read dataset.csv, take its columns, set the initial
\* guess.
Load ==
    /\ pc = "load"
    /\ \E rows \in DataSets :
        /\ y_data' = Column(rows, 1)
        /\ n_data' = Column(rows, 2)
        /\ e_plus_theta_data' = Column(rows, 3)
    /\ initial_guess' = InitialGuess
    /\ pc' = "fit"
    /\ UNCHANGED <<err, result, results, estimates, evaluations, callVars>>

\* Line 14: the file is missing or malformed; nothing handles it.
LoadRaises ==
    /\ pc = "load"
    /\ Raise("load")
    /\ UNCHANGED <<dataVars, initial_guess, result, results, estimates,
                   evaluations, callVars>>

\* scipy.optimize.minimize(neg_log_likelihood, x0, args, method) when it
\* returns: some point x with the objective's value there and a convergence
\* flag; here a run that ends where it started reports no convergence.  The
\* list x0 is copied into an array, not written to.
Minimize(x0, method) ==
    { [x |-> x, fun |-> neg_log_likelihood(x, y_data, n_data, e_plus_theta_data),
       success |-> (x # x0), method |-> method, x0 |-> x0] : x \in XSet }

\* Lines 72-85: the first fit, with L-BFGS-B.
Fit ==
    /\ pc = "fit"
    /\ \E r \in Minimize(initial_guess, "L-BFGS-B") :
        /\ result' = r
        /\ estimates' = r.x
    /\ pc' = "report"
    /\ UNCHANGED <<err, dataVars, initial_guess, results, evaluations, callVars>>

\* Line 72: minimize raises.
FitRaises ==
    /\ pc = "fit"
    /\ Raise("fit")
    /\ UNCHANGED <<dataVars, initial_guess, result, results, estimates,
                   evaluations, callVars>>

\* Lines 88-93, with m what compute_model_values returned: e_hat, and whether
\* one of the two r2_score calls raises.
R2Raises(m, theta) ==
    \/ MetricRaises(n_data, m.n_model)
    \/ MetricRaises([i \in 1..Len(y_data) |-> FSub(e_plus_theta_data[i], theta)],
                    [i \in 1..Len(y_data) |-> FSub(m.e_plus_theta[i], theta)])

\* Lines 84-93: the fitted values and the two R^2 of the first fit.
ReportRaises ==
    R2Raises(compute_model_values(y_data, n_data, estimates[1], estimates[2],
                                  estimates[3], estimates[4]),
             estimates[3])

\* Lines 87-109: report the first fit, then results = {}.
Report ==
    /\ pc = "report"
    /\ IF ReportRaises
       THEN Raise("report") /\ UNCHANGED results
       ELSE pc' = methods[1] /\ results' = <<>> /\ UNCHANGED err
    /\ UNCHANGED <<dataVars, initial_guess, result, estimates, evaluations, callVars>>

IsMethod(m) == \E i \in 1..Len(methods) : methods[i] = m
IndexOf(m)  == CHOOSE i \in 1..Len(methods) : methods[i] = m
AfterMethod(m) ==
    IF IndexOf(m) < Len(methods) THEN methods[IndexOf(m) + 1] ELSE "evaluate"

\* Lines 111-121, one iteration: minimize with the method, store the result
\* under the method's name.
LoopStep ==
    /\ IsMethod(pc)
    /\ \E r \in Minimize(initial_guess, pc) :
        /\ result' = r
        /\ results' = [m \in DOMAIN results \cup {pc} |->
                          IF m = pc THEN r ELSE results[m]]
    /\ pc' = AfterMethod(pc)
    /\ UNCHANGED <<err, dataVars, initial_guess, estimates, evaluations, callVars>>

\* Mutant of LoopRaises: the exception is caught and the loop goes on.
LoopRaises_Caught ==
    /\ IsMethod(pc)
    /\ pc' = AfterMethod(pc)
    /\ UNCHANGED <<err, dataVars, initial_guess, result, results, estimates,
                   evaluations, callVars>>

\* Line 113: minimize raises inside the loop.  The loop has no handler: the
\* exception leaves the script.
LoopRaises ==
    /\ IsMethod(pc)
    /\ Raise(pc)
    /\ UNCHANGED <<dataVars, initial_guess, result, results, estimates,
                   evaluations, callVars>>

\* Lines 168-189: look the three results up and score each.
\* Mutant of Labelled: the evaluations follow the order of methods.
Labelled_MethodsOrder(evaluation1, evaluation2, evaluation3) ==
    [label \in {"L-BFGS-B", "Powell", "Nelder-Mead"} |->
        CASE label = "Powell" -> evaluation1
          [] label = "Nelder-Mead" -> evaluation2
          [] label = "L-BFGS-B" -> evaluation3]

\* Lines 185-189: evaluations, each evaluation under its label.
Labelled(evaluation1, evaluation2, evaluation3) ==
    [label \in {"L-BFGS-B", "Powell", "Nelder-Mead"} |->
        CASE label = "L-BFGS-B" -> evaluation1
          [] label = "Powell" -> evaluation2
          [] label = "Nelder-Mead" -> evaluation3]

EvaluateAt(x) == evaluate_model(x, y_data, n_data, e_plus_theta_data)

EvaluationsOf(res) ==
    Labelled(EvaluateAt(res["L-BFGS-B"].x), EvaluateAt(res["Powell"].x),
             EvaluateAt(res["Nelder-Mead"].x))

Stored(ev) ==
    IF \E label \in DOMAIN ev : ev[label].raised
    THEN Raise("evaluate") /\ UNCHANGED evaluations
    ELSE pc' = "done" /\ evaluations' = ev /\ UNCHANGED err

\* A lookup of a missing key raises KeyError, a metric call may raise
\* ValueError; either leaves the script.
Evaluate ==
    /\ pc = "evaluate"
    /\ IF ~({"L-BFGS-B", "Powell", "Nelder-Mead"} \subseteq DOMAIN results)
       THEN Raise("evaluate") /\ UNCHANGED evaluations
       ELSE Stored(EvaluationsOf(results))
    /\ UNCHANGED <<dataVars, initial_guess, result, results, estimates, callVars>>

Next ==
    \/ Load \/ LoadRaises
    \/ Fit \/ FitRaises
    \/ Report
    \/ LoopStep \/ LoopRaises
    \/ Evaluate

Spec == Init /\ [][Next]_vars

\* --------------------------------------------- the functions (SpecFn)

\* One data set and one parameter vector; the three functions are then
\* applied to them in turn.
InitFn ==
    /\ pc = "neg_log_likelihood"
    /\ err = ""
    /\ \E rows \in DataSets :
        /\ y_data = Column(rows, 1)
        /\ n_data = Column(rows, 2)
        /\ e_plus_theta_data = Column(rows, 3)
    /\ initial_guess = InitialGuess
    /\ result = NoResult
    /\ results = <<>>
    /\ estimates = <<>>
    /\ evaluations = <<>>
    /\ params \in ParamSet
    /\ objective = Zero
    /\ model_values = NoValues
    /\ scores = NoScores

CallNegLogLikelihood ==
    /\ pc = "neg_log_likelihood"
    /\ objective' = neg_log_likelihood(params, y_data, n_data, e_plus_theta_data)
    /\ pc' = "compute_model_values"
    /\ UNCHANGED <<dataVars, scriptVars, params, model_values, scores>>

CallComputeModelValues ==
    /\ pc = "compute_model_values"
    /\ model_values' = compute_model_values(y_data, n_data, params[1], params[2],
                                            params[3], params[4])
    /\ pc' = "evaluate_model"
    /\ UNCHANGED <<dataVars, scriptVars, params, objective, scores>>

CallEvaluateModel ==
    /\ pc = "evaluate_model"
    /\ scores' = evaluate_model(params, y_data, n_data, e_plus_theta_data)
    /\ pc' = "returned"
    /\ UNCHANGED <<dataVars, scriptVars, params, objective, model_values>>

NextFn == CallNegLogLikelihood \/ CallComputeModelValues \/ CallEvaluateModel

SpecFn == InitFn /\ [][NextFn]_vars

\* ---------------------------------------------------------- properties

\* The declared bounds 0 < eta < 1, 0 < phi < 1, theta > 0, gamma > 0.
InBounds(p) ==
    /\ FGt(p[1], Zero) /\ FGt(One, p[1])
    /\ FGt(p[2], Zero) /\ FGt(One, p[2])
    /\ FGt(p[3], Zero)
    /\ FGt(p[4], Zero)

IsNaN(a) == a.t = "nan"

\* IEEE ==, <= and >=: false as soon as one side is NaN; -0 equals +0.
FEq(a, b) ==
    /\ ~IsNaN(a) /\ ~IsNaN(b)
    /\ a.t = b.t
    /\ a.n = b.n /\ a.lp = b.lp /\ a.l2 = b.l2 /\ a.l3 = b.l3 /\ a.l5 = b.l5
    /\ a.d = b.d /\ a.x10 = b.x10
FLe(a, b) == ~IsNaN(a) /\ ~IsNaN(b) /\ ~FGt(a, b)
FGe(a, b) == ~IsNaN(a) /\ ~IsNaN(b) /\ ~FGt(b, a)

\* The same value: equal, or both NaN.
Same(a, b) == FEq(a, b) \/ (IsNaN(a) /\ IsNaN(b))

NllReturned  == pc \in {"compute_model_values", "evaluate_model", "returned"}
CmvReturned  == pc \in {"evaluate_model", "returned"}
EvalReturned == pc = "returned" /\ ~scores.raised

Rows == 1..Len(y_data)

\* gamma / (phi * (1 + gamma)) at the parameters under evaluation
NBoundary == FDiv(params[4], FMul(params[2], FAdd(One, params[4])))

\* The 1e10 of the claims.
TenToTheTen == [t |-> "fin", n |-> 1, lp |-> 0, l2 |-> 0, l3 |-> 0, l5 |-> 0,
                d |-> 1, nz |-> FALSE, x10 |-> 10]

\* C1: for every parameter vector with one of eta, phi, theta, gamma outside
\* its open bounds, the bounds themselves included, and every data set,
\* neg_log_likelihood returns exactly 1e10.
C1_InfeasiblePenalty ==
    (NllReturned /\ ~InBounds(params)) => FEq(objective, TenToTheTen)

\* C1 witness: eta on its bound 0, everything else inside, a non-empty data set.
C1_Witness ==
    /\ NllReturned /\ Len(y_data) > 0
    /\ params[1] = Zero /\ params[2] = R(1, 2) /\ params[3] = One /\ params[4] = One
    /\ FEq(objective, TenToTheTen)

\* Row i is degenerate: n_i = 1/phi, so that 1 - phi*n_i = 0.
Degenerate(i) == FEq(FMul(params[2], n_data[i]), One)

\* C2 (as claimed): for parameters inside the bounds and an n array holding a
\* value equal to 1/phi, neg_log_likelihood returns the penalty 1e10.
C2_DivisionByZeroPenalised ==
    (NllReturned /\ InBounds(params) /\ \E i \in Rows : Degenerate(i))
        => FEq(objective, TenToTheTen)

\* C3: every element with w_i <= w_thresh has e+theta exactly theta and n-hat
\* exactly gamma/(phi*(1+gamma)), whatever the regime of the other elements.
C3_BoundaryRegimePerElement ==
    CmvReturned =>
        \A i \in Rows :
            FLe(model_values.w[i], model_values.w_thresh) =>
                /\ Same(model_values.e_plus_theta[i], params[3])
                /\ Same(model_values.n_model[i], NBoundary)

\* C3 witness: two rows in different regimes, the boundary row with the
\* boundary values.
C3_Witness ==
    /\ CmvReturned /\ InBounds(params) /\ Len(y_data) = 2
    /\ FGt(model_values.w[1], model_values.w_thresh)
    /\ FLe(model_values.w[2], model_values.w_thresh)
    /\ FEq(model_values.e_plus_theta[2], params[3])
    /\ FEq(model_values.n_model[2], NBoundary)
    /\ ~FEq(model_values.n_model[1], NBoundary)

\* C4 (as claimed): inside the bounds, the active-branch expression of n-hat
\* at w = w_thresh differs from gamma/(phi*(1+gamma)).
C4_NHatDiscontinuous ==
    (CmvReturned /\ InBounds(params)) =>
        \A i \in Rows :
            FEq(model_values.w[i], model_values.w_thresh) =>
                ~FEq(model_values.n_active[i], NBoundary)

\* C4 (amended): inside the bounds, the active-branch expression of n-hat at
\* w = w_thresh equals gamma/(phi*(1+gamma)): n-hat is continuous at the
\* threshold.
C4_NHatContinuous ==
    (CmvReturned /\ InBounds(params)) =>
        \A i \in Rows :
            FEq(model_values.w[i], model_values.w_thresh) =>
                FEq(model_values.n_active[i], NBoundary)

\* C4 witness: a row exactly on the threshold.
C4_Witness ==
    /\ CmvReturned /\ InBounds(params)
    /\ \E i \in Rows :
        /\ FEq(model_values.w[i], model_values.w_thresh)
        /\ FEq(model_values.n_active[i], NBoundary)
        /\ FEq(model_values.n_model[i], NBoundary)

\* C5: inside the bounds, the active-branch expression of e is 0 at
\* w = w_thresh and strictly positive for every w > w_thresh.
C5_EContinuous ==
    (CmvReturned /\ InBounds(params)) =>
        \A i \in Rows :
            /\ FEq(model_values.w[i], model_values.w_thresh)
                  => FEq(model_values.e_active[i], Zero)
            /\ FGt(model_values.w[i], model_values.w_thresh)
                  => FGt(model_values.e_active[i], Zero)

\* C5 witness: one row on the threshold and one finite row above it.
C5_Witness ==
    /\ CmvReturned /\ InBounds(params)
    /\ \E i, j \in Rows :
        /\ FEq(model_values.w[i], model_values.w_thresh)
        /\ FEq(model_values.e_active[i], Zero)
        /\ IsFinite(model_values.w[j])
        /\ FGt(model_values.w[j], model_values.w_thresh)
        /\ FGt(model_values.e_active[j], Zero)

\* 2k - k*ln(n_obs) with k = 6
AicMinusBic == FSub(R(12, 1), FMul(R(6, 1), FLog(R(Len(y_data), 1))))

\* C6 (as claimed): for every parameter vector and data set the values
\* evaluate_model returns satisfy AIC - BIC = 2k - k*ln(n_obs), k = 6.
C6_AicBicIdentity ==
    EvalReturned => FEq(FSub(scores.AIC, scores.BIC), AicMinusBic)

\* C6 (amended): whenever the log-likelihood evaluate_model returns is finite,
\* AIC - BIC = 2k - k*ln(n_obs), k = 6.
C6_AicBicIdentityFinite ==
    (EvalReturned /\ IsFinite(scores.log_likelihood))
        => FEq(FSub(scores.AIC, scores.BIC), AicMinusBic)

\* C6 witness: two observations, a finite log-likelihood.
C6_Witness ==
    /\ EvalReturned /\ Len(y_data) = 2 /\ IsFinite(scores.log_likelihood)
    /\ InBounds(params)
    /\ FEq(FSub(scores.AIC, scores.BIC), AicMinusBic)

\* C9: for parameters inside the bounds and data on which evaluate_model
\* returns, neg_log_likelihood returns the negation of the scorer's
\* log_likelihood.
C9_ObjectiveIsNegatedScore ==
    (EvalReturned /\ InBounds(params))
        => Same(objective, FNeg(scores.log_likelihood))

\* C9 witness: inside the bounds, rows in both regimes, a finite likelihood.
C9_Witness ==
    /\ EvalReturned /\ InBounds(params) /\ Len(y_data) = 2
    /\ FGt(model_values.w[1], model_values.w_thresh)
    /\ FLe(model_values.w[2], model_values.w_thresh)
    /\ IsFinite(objective)
    /\ FEq(objective, FNeg(scores.log_likelihood))

\* C10 (as claimed): inside the bounds every e+theta is at least theta, with
\* equality exactly for the elements where w <= w_thresh.
C10_FloorEqualityIffBelow ==
    (CmvReturned /\ InBounds(params)) =>
        \A i \in Rows :
            /\ FGe(model_values.e_plus_theta[i], params[3])
            /\ FEq(model_values.e_plus_theta[i], params[3])
                  <=> FLe(model_values.w[i], model_values.w_thresh)

\* C10 (amended): inside the bounds every e+theta is at least theta, with
\* equality exactly for the elements where w > w_thresh is false: those with
\* w <= w_thresh and those whose w is NaN.
C10_FloorEqualityIffNotAbove ==
    (CmvReturned /\ InBounds(params)) =>
        \A i \in Rows :
            /\ FGe(model_values.e_plus_theta[i], params[3])
            /\ FEq(model_values.e_plus_theta[i], params[3])
                  <=> ~FGt(model_values.w[i], model_values.w_thresh)

\* C10 witness: a row with negative w and a row with NaN w, both at theta.
C10_Witness ==
    /\ CmvReturned /\ InBounds(params)
    /\ \E i, j \in Rows :
        /\ FGt(Zero, model_values.w[i])
        /\ FEq(model_values.e_plus_theta[i], params[3])
        /\ IsNaN(model_values.w[j])
        /\ FEq(model_values.e_plus_theta[j], params[3])

MethodSet == {methods[i] : i \in 1..Len(methods)}
Before(m) == {methods[j] : j \in 1..(IndexOf(m) - 1)}

\* C7 (as claimed): if the minimization for one method raises, the remaining
\* methods are still run and their results stored.
C7_FailureDoesNotBlock ==
    (pc = "crashed" /\ IsMethod(err)) => (MethodSet \ {err}) \subseteq DOMAIN results

\* C7 (amended): a minimization that returns, converged or not, does not
\* block the others; one that raises ends the script, with the results of the
\* methods before it stored and none of the methods after it started.
C7_RaiseEndsLoop ==
    /\ (pc = "crashed" /\ IsMethod(err)) => DOMAIN results = Before(err)
    /\ IsMethod(pc) => DOMAIN results = Before(pc)
    /\ pc \in {"evaluate", "done"} => DOMAIN results = MethodSet

\* C7 witness: Powell returned without converging, Nelder-Mead raised.
C7_Witness ==
    /\ pc = "crashed" /\ err = "Nelder-Mead"
    /\ DOMAIN results = {"Powell"}
    /\ ~results["Powell"].success

\* C8: when the script completes, results holds one result for each of the
\* three methods, stored under the name of the method that produced it and
\* started from the unchanged initial guess, and each evaluation is labelled
\* with the method whose result it was computed from.
C8_ResultsKeyedByMethod ==
    pc = "done" =>
        /\ DOMAIN results = {"Powell", "Nelder-Mead", "L-BFGS-B"}
        /\ initial_guess = InitialGuess
        /\ \A m \in DOMAIN results :
            /\ results[m].method = m
            /\ results[m].x0 = InitialGuess
        /\ DOMAIN evaluations = {"L-BFGS-B", "Powell", "Nelder-Mead"}
        /\ \A m \in DOMAIN evaluations :
            evaluations[m] = evaluate_model(results[m].x, y_data, n_data,
                                            e_plus_theta_data)

\* C8 witness: the script completed with the methods ending at different
\* points.
C8_Witness ==
    /\ pc = "done"
    /\ results["Powell"].x # results["Nelder-Mead"].x
    /\ results["L-BFGS-B"].x # results["Powell"].x
    /\ evaluations["Powell"] # evaluations["Nelder-Mead"]

====
